---- MODULE Spec2Model ----
\* A model of sample.py: the trial-division predicate is_prime(n), executed one
\* source line per step in a call frame of its own, and the module-level loop
\* that prints a classification for each num of range(1, 20).
\*
\* Three programs run the same line-by-line steps of is_prime:
\*   SeqSpec     one caller calling is_prime on any integer of -NegN..MaxN, one call
\*               after the other;
\*   Spec        NProcs independent callers, their steps interleaved;
\*   DriverSpec  the script itself: the for loop of lines 18-22.
EXTENDS Integers, Sequences, FiniteSets, TLC

VARIABLES
    pc,      \* pc[p]: the line caller p's call of is_prime is at, or "idle"/"ret"
    n,       \* n[f]: the parameter n of frame f
    i,       \* i[f]: the local i of frame f
    arg,     \* arg[p]: the argument of caller p's current or last call
    ret,     \* ret[p]: the value caller p's last call returned
    tested,  \* tested[p]: the right operands of % evaluated by p's current or last call
    rounds,  \* rounds[p]: how many times that call entered the body of the while loop
    num,     \* the loop variable of the module-level for loop
    it,      \* the next value range(1, 20) will yield
    dpc,     \* the line the module-level code is at
    out      \* the lines written to standard output

vars == <<pc, n, i, arg, ret, tested, rounds, num, it, dpc, out>>

callVars == <<pc, n, i, arg, ret, tested, rounds>>

driverVars == <<num, it, dpc, out>>

---------------------------------------------------------------------------
\* Bounds of the model.

\* the number of concurrent callers of Spec
NProcs == 2

\* SeqSpec calls is_prime on every integer of -NegN..MaxN
NegN == 5

MaxN == 400

\* Spec calls is_prime on every integer of 0..ConcLow, the arguments that return
\* before the loop, and of 25..ConcMaxN, the first arguments that enter its body
ConcLow == 3

ConcMaxN == 29

Procs == 1..NProcs

\* the caller whose frame the single-threaded programs use
Main == 1

SeqInputs == (0 - NegN)..MaxN


---------------------------------------------------------------------------
\* The program's constants and expressions.

\* a name with no value bound to it (a parameter or local of a frame that does
\* not exist, the local i before line 10)
Unbound == 0

\* range(1, 20)
RangeStart == 1

RangeStop == 20

\* i = 5
InitI == 5

ConcInputs == (0..ConcLow) \cup ((InitI * InitI)..ConcMaxN)

\* a % b of Python for b # 0: the result has the sign of b
PyMod(a, b) ==
    IF b > 0 THEN a % b ELSE 0 - ((0 - a) % (0 - b))

\* the bug `if n < 1`
AtMostOneStrict(nv) ==
    nv < 1

\* if n <= 1
AtMostOne(nv) ==
    nv <= 1

\* the bug `if n < 3`
AtMostThreeStrict(nv) ==
    nv < 3

\* if n <= 3
AtMostThree(nv) ==
    nv <= 3

\* the right operands of % that `n % 2 == 0 or n % 3 == 0` evaluates: `or` does
\* not evaluate its second operand when the first is true
Operands23(nv) ==
    IF PyMod(nv, 2) = 0 THEN {2} ELSE {2, 3}

\* the bug `if n % 2 == 0`, the test of 3 forgotten
DivisibleBy2Only(nv) ==
    PyMod(nv, 2) = 0

\* the bug `if n % 2 == 0 and n % 3 == 0`
DivisibleBy2And3(nv) ==
    PyMod(nv, 2) = 0 /\ PyMod(nv, 3) = 0

\* n % 2 == 0 or n % 3 == 0
DivisibleBy2Or3(nv) ==
    PyMod(nv, 2) = 0 \/ PyMod(nv, 3) = 0

\* the bug `while i * i < n`
LoopGuardStrict(iv, nv) ==
    iv * iv < nv

\* the bug `while i <= n`
LoopGuardLinear(iv, nv) ==
    iv <= nv

\* while i * i <= n
LoopGuard(iv, nv) ==
    iv * iv <= nv

\* the right operands of % that `n % i == 0 or n % (i + 2) == 0` evaluates
OperandsLoop(iv, nv) ==
    IF iv = 0 THEN {iv}
    ELSE IF PyMod(nv, iv) = 0 THEN {iv} ELSE {iv, iv + 2}

\* n % i == 0 or n % (i + 2) == 0, of operands that are not zero
DivisibleByIOrI2(iv, nv) ==
    PyMod(nv, iv) = 0 \/ PyMod(nv, iv + 2) = 0

\* the bug `i + 6`, an expression whose value is dropped
NextISame(iv) ==
    iv

\* the bug `i += 4`
NextIBy4(iv) ==
    iv + 4

\* i += 6
NextI(iv) ==
    iv + 6

\* the bug of n and i declared global: one namespace for every call
Global(p) ==
    Main

\* the frame that holds caller p's n and i: every call of a Python function has
\* a local namespace of its own
Local(p) ==
    p

\* f"{num} is prime"
FormatPrime(v) ==
    ToString(v) \o " is prime"

\* f"{num} is not prime"
FormatNotPrime(v) ==
    ToString(v) \o " is not prime"

---------------------------------------------------------------------------
\* is_prime as a function: what one call, run alone, returns.

RECURSIVE WhileLoop(_, _)
WhileLoop(iv, nv) ==
    IF LoopGuard(iv, nv)
      THEN IF DivisibleByIOrI2(iv, nv) THEN FALSE ELSE WhileLoop(NextI(iv), nv)
      ELSE TRUE

is_prime(nv) ==
    IF AtMostOne(nv) THEN FALSE
    ELSE IF AtMostThree(nv) THEN TRUE
    ELSE IF DivisibleBy2Or3(nv) THEN FALSE
    ELSE WhileLoop(InitI, nv)

---------------------------------------------------------------------------
\* The state after construction: no call is active, nothing is printed.

Init ==
    /\ pc = [p \in Procs |-> "idle"]
    /\ n = [p \in Procs |-> Unbound]
    /\ i = [p \in Procs |-> Unbound]
    /\ arg = [p \in Procs |-> 0]
    /\ ret = [p \in Procs |-> FALSE]
    /\ tested = [p \in Procs |-> {}]
    /\ rounds = [p \in Procs |-> 0]
    /\ num = Unbound
    /\ it = RangeStart
    /\ dpc = "L18"
    /\ out = <<>>

---------------------------------------------------------------------------
\* is_prime, one source line per step, in the frame of caller p.

\* is_prime(v): a new frame with n bound to v and i unbound
Enter(p, v) ==
    /\ pc[p] \in {"idle", "ret"}
    /\ pc' = [pc EXCEPT ![p] = "L4"]
    /\ n' = [n EXCEPT ![Local(p)] = v]
    /\ i' = [i EXCEPT ![Local(p)] = Unbound]
    /\ arg' = [arg EXCEPT ![p] = v]
    /\ ret' = [ret EXCEPT ![p] = FALSE]
    /\ tested' = [tested EXCEPT ![p] = {}]
    /\ rounds' = [rounds EXCEPT ![p] = 0]

\* a step that only moves caller p to another line
Goto(p, from, to) ==
    /\ pc[p] = from
    /\ pc' = [pc EXCEPT ![p] = to]
    /\ UNCHANGED <<n, arg, ret>>
    /\ UNCHANGED driverVars

\* return v: the frame is discarded and the caller holds v
Return(p, v) ==
    /\ pc' = [pc EXCEPT ![p] = "ret"]
    /\ ret' = [ret EXCEPT ![p] = v]
    /\ n' = [n EXCEPT ![Local(p)] = Unbound]
    /\ i' = [i EXCEPT ![Local(p)] = Unbound]
    /\ UNCHANGED <<arg, tested, rounds>>
    /\ UNCHANGED driverVars

\* if n <= 1:
L4(p) ==
    /\ Goto(p, "L4", IF AtMostOne(n[Local(p)]) THEN "L5" ELSE "L6")
    /\ UNCHANGED <<i, tested, rounds>>

\*     return False
L5(p) ==
    /\ pc[p] = "L5"
    /\ Return(p, FALSE)

\* if n <= 3:
L6(p) ==
    /\ Goto(p, "L6", IF AtMostThree(n[Local(p)]) THEN "L7" ELSE "L8")
    /\ UNCHANGED <<i, tested, rounds>>

\*     return True
L7(p) ==
    /\ pc[p] = "L7"
    /\ Return(p, TRUE)

\* if n % 2 == 0 or n % 3 == 0:
L8(p) ==
    /\ Goto(p, "L8", IF DivisibleBy2Or3(n[Local(p)]) THEN "L9" ELSE "L10")
    /\ tested' = [tested EXCEPT ![p] = @ \cup Operands23(n[Local(p)])]
    /\ UNCHANGED <<i, rounds>>

\*     return False
L9(p) ==
    /\ pc[p] = "L9"
    /\ Return(p, FALSE)

\* i = 5
L10(p) ==
    /\ Goto(p, "L10", "L11")
    /\ i' = [i EXCEPT ![Local(p)] = InitI]
    /\ UNCHANGED <<tested, rounds>>

\* while i * i <= n:
L11(p) ==
    /\ Goto(p, "L11", IF LoopGuard(i[Local(p)], n[Local(p)]) THEN "L12" ELSE "L15")
    /\ rounds' = [rounds EXCEPT ![p] =
                    IF LoopGuard(i[Local(p)], n[Local(p)]) THEN @ + 1 ELSE @]
    /\ UNCHANGED <<i, tested>>

\*     if n % i == 0 or n % (i + 2) == 0:
\* a right operand of % that is zero raises ZeroDivisionError, which nothing
\* catches: the call never returns
L12(p) ==
    /\ Goto(p, "L12",
            IF 0 \in OperandsLoop(i[Local(p)], n[Local(p)]) THEN "raise"
            ELSE IF DivisibleByIOrI2(i[Local(p)], n[Local(p)]) THEN "L13"
            ELSE "L14")
    /\ tested' = [tested EXCEPT ![p] = @ \cup OperandsLoop(i[Local(p)], n[Local(p)])]
    /\ UNCHANGED <<i, rounds>>

\*         return False
L13(p) ==
    /\ pc[p] = "L13"
    /\ Return(p, FALSE)

\* the bug of i declared global: line 14 writes the i of every frame
L14AllFrames(p) ==
    /\ Goto(p, "L14", "L11")
    /\ i' = [f \in Procs |-> NextI(i[Local(p)])]
    /\ UNCHANGED <<tested, rounds>>

\*     i += 6
L14(p) ==
    /\ Goto(p, "L14", "L11")
    /\ i' = [i EXCEPT ![Local(p)] = NextI(@)]
    /\ UNCHANGED <<tested, rounds>>

\* return True
L15(p) ==
    /\ pc[p] = "L15"
    /\ Return(p, TRUE)

\* the steps of a call of is_prime in progress
Step(p) ==
    \/ L4(p)
    \/ L5(p)
    \/ L6(p)
    \/ L7(p)
    \/ L8(p)
    \/ L9(p)
    \/ L10(p)
    \/ L11(p)
    \/ L12(p)
    \/ L13(p)
    \/ L14(p)
    \/ L15(p)

---------------------------------------------------------------------------
\* SeqSpec: one caller, any integer of SeqInputs, one call after the other.

SeqCall ==
    /\ \E v \in SeqInputs : Enter(Main, v)
    /\ UNCHANGED driverVars

SeqNext ==
    \/ SeqCall
    \/ L4(Main)
    \/ L5(Main)
    \/ L6(Main)
    \/ L7(Main)
    \/ L8(Main)
    \/ L9(Main)
    \/ L10(Main)
    \/ L11(Main)
    \/ L12(Main)
    \/ L13(Main)
    \/ L14(Main)
    \/ L15(Main)

SeqSpec ==
    Init /\ [][SeqNext]_vars

\* a call in progress is run to its end: the interpreter does not stop between
\* two lines of a function
FairSeqSpec ==
    SeqSpec /\ WF_vars(Step(Main))

---------------------------------------------------------------------------
\* Spec: NProcs independent callers, their steps interleaved in any order.

Call(p) ==
    /\ \E v \in ConcInputs : Enter(p, v)
    /\ UNCHANGED driverVars

Next ==
    \E p \in Procs :
        \/ Call(p)
        \/ L4(p)
        \/ L5(p)
        \/ L6(p)
        \/ L7(p)
        \/ L8(p)
        \/ L9(p)
        \/ L10(p)
        \/ L11(p)
        \/ L12(p)
        \/ L13(p)
        \/ L14(p)
        \/ L15(p)

Spec ==
    Init /\ [][Next]_vars

---------------------------------------------------------------------------
\* DriverSpec: the script. Lines 18-22, calling is_prime in the frame of Main.

\* for num in range(1, 20): the next value of the range, or the end of the loop
L18 ==
    /\ dpc = "L18"
    /\ IF it < RangeStop
         THEN num' = it /\ it' = it + 1 /\ dpc' = "L19"
         ELSE dpc' = "end" /\ UNCHANGED <<num, it>>
    /\ UNCHANGED out
    /\ UNCHANGED callVars

\* if is_prime(num): the call
L19Call ==
    /\ dpc = "L19"
    /\ Enter(Main, num)
    /\ dpc' = "L19r"
    /\ UNCHANGED <<num, it, out>>

\* if is_prime(num): the branch on the value returned
L19Test ==
    /\ dpc = "L19r"
    /\ pc[Main] = "ret"
    /\ dpc' = IF ret[Main] THEN "L20" ELSE "L22"
    /\ UNCHANGED <<num, it, out>>
    /\ UNCHANGED callVars

\* print(f"{num} is prime")
L20 ==
    /\ dpc = "L20"
    /\ out' = Append(out, FormatPrime(num))
    /\ dpc' = "L18"
    /\ UNCHANGED <<num, it>>
    /\ UNCHANGED callVars

\* print(f"{num} is not prime")
L22 ==
    /\ dpc = "L22"
    /\ out' = Append(out, FormatNotPrime(num))
    /\ dpc' = "L18"
    /\ UNCHANGED <<num, it>>
    /\ UNCHANGED callVars

\* the call of line 19 in progress: the lines of is_prime, in the frame of Main
L19Callee ==
    /\ dpc = "L19r"
    /\ Step(Main)

DriverNext ==
    \/ L18
    \/ L19Call
    \/ L19Callee
    \/ L19Test
    \/ L20
    \/ L22

DriverSpec ==
    Init /\ [][DriverNext]_vars

---------------------------------------------------------------------------
\* Properties.

\* caller p holds the value its last call returned
Returned(p) ==
    pc[p] = "ret"

\* the lines of the while loop and the return after it
LoopLines == {"L11", "L12", "L13", "L14", "L15"}

\* the lines of the body of the while loop
BodyLines == {"L12", "L13", "L14"}

\* v is a prime number: greater than 1, and no d with 1 < d < v divides it
IsPrimeNumber(v) ==
    v > 1 /\ \A d \in 2..(v - 1) : v % d # 0

\* plain trial division: every d from 2 on with d * d <= v is tried
PlainTrialDivision(v) ==
    v > 1 /\ \A d \in 2..v : (d * d <= v) => (v % d # 0)

\* C1: for every integer n of -NegN..MaxN, the value is_prime(n) returns is true
\* if and only if n is prime: n > 1 and no d with 1 < d < n divides n.
C1_TrueIffPrime ==
    Returned(Main) => (ret[Main] <=> IsPrimeNumber(arg[Main]))

\* a prime beyond 17 * 17 has been classified: three rounds of the loop ran
C1_Witness ==
    Returned(Main) /\ ret[Main] /\ arg[Main] > 17 * 17 /\ rounds[Main] = 3

\* C4: for every n <= 1 (0, 1, the negative integers) is_prime(n) returns false,
\* and no divisibility test is made on the way: the call goes from line 4 to
\* line 5 and returns.
C4_AtMostOneIsFalse ==
    (arg[Main] <= 1) =>
        /\ pc[Main] \in {"idle", "L4", "L5", "ret"}
        /\ tested[Main] = {}
        /\ rounds[Main] = 0
        /\ Returned(Main) => ret[Main] = FALSE

\* a call on a negative integer has returned
C4_Witness ==
    Returned(Main) /\ arg[Main] < 0 /\ ret[Main] = FALSE

\* C7: for every n > 3 divisible by 2 or by 3, is_prime(n) returns false from
\* line 9: the call never reaches line 10 or the loop, no round is entered and
\* the only divisors tried are 2 and 3.
C7_MultiplesOf2Or3 ==
    (arg[Main] > 3 /\ (arg[Main] % 2 = 0 \/ arg[Main] % 3 = 0)) =>
        /\ pc[Main] \in {"L4", "L6", "L8", "L9", "ret"}
        /\ rounds[Main] = 0
        /\ tested[Main] \subseteq {2, 3}
        /\ Returned(Main) => ret[Main] = FALSE

\* an odd multiple of 3 greater than 3 has been classified not prime
C7_Witness ==
    /\ Returned(Main)
    /\ arg[Main] > 3 /\ arg[Main] % 3 = 0 /\ arg[Main] % 2 = 1
    /\ ret[Main] = FALSE
    /\ tested[Main] = {2, 3}

\* C8: in the while loop i is 5 + 6k, k the number of rounds completed; the
\* divisors tried in the loop are the i and i + 2 of the rounds entered, all of
\* the form 6k - 1 or 6k + 1; the body runs only with i * i <= n; and at the
\* return after the loop i * i > n and no divisor tried divides n.
C8_LoopInvariant ==
    /\ pc[Main] \in LoopLines =>
          /\ i[Main] >= 5
          /\ i[Main] % 6 = 5
          /\ i[Main] = 5 + 6 * (rounds[Main] - (IF pc[Main] \in BodyLines THEN 1 ELSE 0))
    /\ tested[Main] \ {2, 3} \subseteq
          UNION {{5 + 6 * k, 7 + 6 * k} : k \in 0..(rounds[Main] - 1)}
    /\ \A d \in tested[Main] \ {2, 3} : d % 6 \in {1, 5}
    /\ pc[Main] \in BodyLines => i[Main] * i[Main] <= n[Main]
    /\ pc[Main] = "L15" =>
          /\ i[Main] * i[Main] > n[Main]
          /\ \A d \in tested[Main] : n[Main] % d # 0

\* the loop has been left for `return True` after two rounds
C8_Witness ==
    pc[Main] = "L15" /\ rounds[Main] = 2 /\ i[Main] = 17

\* C9: for every integer n of -NegN..MaxN, is_prime(n) classifies n as plain
\* trial division by every d with 2 <= d and d * d <= n does.
C9_SameAsPlainTrialDivision ==
    Returned(Main) => (ret[Main] <=> PlainTrialDivision(arg[Main]))

\* the square of a number of the form 6k + 1 has been rejected by its root
C9_Witness ==
    /\ Returned(Main)
    /\ ret[Main] = FALSE
    /\ \E d \in tested[Main] : d * d = arg[Main] /\ d % 6 = 1

\* C10: at `return False` inside the loop, i or i + 2 divides n and whichever
\* does is a proper divisor, 1 < d < n; i + 2 is less than n whenever it is
\* tried, so a prime is never rejected.
C10_ProperDivisor ==
    /\ pc[Main] = "L13" =>
          /\ \E d \in {i[Main], i[Main] + 2} : n[Main] % d = 0
          /\ \A d \in {i[Main], i[Main] + 2} :
                (n[Main] % d = 0) => (1 < d /\ d < n[Main])
          /\ ~IsPrimeNumber(n[Main])
    /\ pc[Main] \in BodyLines => i[Main] + 2 < n[Main]

\* n has been rejected by the second candidate, i + 2, in the second round
C10_Witness ==
    /\ pc[Main] = "L13"
    /\ rounds[Main] = 2
    /\ n[Main] % i[Main] # 0
    /\ n[Main] % (i[Main] + 2) = 0

\* the 19 lines the script is to print
C2_Expected ==
    << "1 is not prime", "2 is prime", "3 is prime", "4 is not prime",
       "5 is prime", "6 is not prime", "7 is prime", "8 is not prime",
       "9 is not prime", "10 is not prime", "11 is prime", "12 is not prime",
       "13 is prime", "14 is not prime", "15 is not prime", "16 is not prime",
       "17 is prime", "18 is not prime", "19 is prime" >>

\* C2: the script prints one line per num, for num = 1, ..., 19 in this order,
\* "prime" for 2, 3, 5, 7, 11, 13, 17 and 19 and "not prime" for the others, and
\* then ends: it is never stuck before the end and no call raises.
C2_DriverOutput ==
    /\ Len(out) <= Len(C2_Expected)
    /\ \A k \in 1..Len(out) : out[k] = C2_Expected[k]
    /\ dpc \in {"L19", "L19r", "L20", "L22"} => Len(out) = num - 1
    /\ (dpc = "L18" /\ it > 1) => Len(out) = num
    /\ dpc = "end" => out = C2_Expected
    /\ pc[Main] # "raise"
    /\ dpc = "end" \/ ENABLED DriverNext

\* the script has ended with 19 lines printed
C2_Witness ==
    dpc = "end" /\ Len(out) = 19 /\ num = 19

\* C3: every call of is_prime returns: a call that has begun reaches its return,
\* no right operand of % is zero and no call raises, and every pass of line 14
\* makes i greater.
C3_Terminates ==
    /\ (pc[Main] = "L4") ~> Returned(Main)
    /\ [](pc[Main] # "raise" /\ 0 \notin tested[Main])
    /\ [][pc[Main] = "L14" => i'[Main] > i[Main]]_vars

\* a call has returned after three rounds of the loop
C3_Witness ==
    Returned(Main) /\ rounds[Main] = 3 /\ 0 \notin tested[Main]

\* C5: with the steps of the callers interleaved in any order, every call
\* returns what is_prime returns for its argument when run alone, and a step of
\* one caller leaves the n and i of every other caller as they are.
C5_SameAsAlone ==
    /\ [](\A p \in Procs : Returned(p) => (ret[p] = is_prime(arg[p])))
    /\ [][\A p, q \in Procs :
            (p # q /\ pc'[p] # pc[p]) => (n'[q] = n[q] /\ i'[q] = i[q])]_vars

\* one caller is in the body of the loop while another, of another argument,
\* has come back from the loop
C5_Witness ==
    \E p, q \in Procs :
        /\ p # q
        /\ pc[p] \in BodyLines
        /\ Returned(q) /\ rounds[q] >= 1 /\ ret[q]
        /\ arg[p] # arg[q]

\* C6: two calls of the same argument return the same value, whatever calls run
\* between them, and a call leaves nothing behind but the value it returns: its
\* frame is gone when it has returned, and its steps change neither the
\* module's variables nor what another caller holds.
C6_Deterministic ==
    /\ [](\A p, q \in Procs :
            (Returned(p) /\ Returned(q) /\ arg[p] = arg[q]) => (ret[p] = ret[q]))
    /\ [](\A p \in Procs : Returned(p) => (n[p] = Unbound /\ i[p] = Unbound))
    /\ [][\A p, q \in Procs :
            (p # q /\ pc'[p] # pc[p]) =>
                /\ ret'[q] = ret[q]
                /\ arg'[q] = arg[q]
                /\ UNCHANGED <<num, it, out>>]_vars

\* two callers hold the value returned for the same argument, one that went
\* through the loop
C6_Witness ==
    \E p, q \in Procs :
        /\ p # q
        /\ Returned(p) /\ Returned(q)
        /\ arg[p] = arg[q]
        /\ rounds[p] >= 1
        /\ ret[p] = ret[q]

====
